---- MODULE Spec2Model ----
(***************************************************************************)
(* pycron-cli: the cron expression parser (src/src/cron_parse.py), the     *)
(* launchd integration (src/src/launchd.py) and the CLI `add` command      *)
(* (src/src/cli.py) that drives them.                                      *)
(*                                                                         *)
(* A Python str is a sequence of one-character strings, so that split,     *)
(* startswith, `in` and int() are computed character by character.         *)
(* A Python exception leaving a function is a result record whose kind is  *)
(* the exception class.                                                    *)
(***************************************************************************)
EXTENDS Integers, Sequences, FiniteSets, TLC

VARIABLES
    pc,          \* position of the running call
    field,       \* _parse_field: argument `field`
    min_val,     \* _parse_field: argument `min_val`
    max_val,     \* _parse_field: argument `max_val`
    field_ret,   \* _parse_field: what the call produced
    expression,  \* add: the --cron option, parse_cron's argument
    schedule,    \* add: what parse_cron produced
    plist,       \* create_plist: the `data` dictionary written to the plist
    summary,     \* add: what format_schedule produced
    loaded,      \* launchd: the task's label is in `launchctl list`
    wrapper_file, \* create_wrapper: the wrapper script of the task
    log          \* the launchd functions add has called, in order, with their outcomes

vars == <<pc, field, min_val, max_val, field_ret, expression, schedule, plist, summary,
          loaded, wrapper_file, log>>

\* the arguments and result of a call of _parse_field on its own
field_vars == <<field, min_val, max_val, field_ret>>

----------------------------------------------------------------------------
(* Bounds of the inputs.                                                   *)

\* longest field string handed to _parse_field
MaxLen == 5
\* longest minute / hour / weekday field of an expression handed to parse_cron
MaxFieldLen == 4

\* the characters field strings are made of
Chars == {"*", "/", ",", "-", "0", "1", "7"}

----------------------------------------------------------------------------
(* Python str and int primitives.                                          *)

DIGITS == <<"0", "1", "2", "3", "4", "5", "6", "7", "8", "9">>

IsDigit(c) == \E i \in 1..10 : DIGITS[i] = c

DigitVal(c) == (CHOOSE i \in 1..10 : DIGITS[i] = c) - 1

\* str.strip(): leading and trailing blanks removed
RECURSIVE lstrip(_)
lstrip(s) == IF s # <<>> /\ Head(s) = " " THEN lstrip(Tail(s)) ELSE s

RECURSIVE rstrip(_)
rstrip(s) ==
    IF s # <<>> /\ s[Len(s)] = " " THEN rstrip(SubSeq(s, 1, Len(s) - 1)) ELSE s

strip(s) == rstrip(lstrip(s))

\* `sub in s` for a one-character sub
contains(s, c) == \E i \in 1..Len(s) : s[i] = c

\* s.startswith(prefix)
startswith(s, prefix) ==
    Len(s) >= Len(prefix) /\ SubSeq(s, 1, Len(prefix)) = prefix

\* index of the first occurrence of c in s (c occurs in s)
find(s, c) ==
    LET hits == {i \in 1..Len(s) : s[i] = c}
    IN CHOOSE i \in hits : \A j \in hits : i <= j

\* s.split(c, 1) when c occurs in s: the text before and after the first c
split1(s, c) ==
    LET i == find(s, c)
    IN <<SubSeq(s, 1, i - 1), SubSeq(s, i + 1, Len(s))>>

\* s.split(c): cut at every c, empty pieces kept
RECURSIVE split(_, _)
split(s, c) ==
    IF contains(s, c)
    THEN LET p == split1(s, c) IN <<p[1]>> \o split(p[2], c)
    ELSE <<s>>

\* s.split() with no argument: cut at runs of blanks, no empty pieces
RECURSIVE split_ws(_)
split_ws(s) ==
    LET t == lstrip(s) IN
    IF t = <<>> THEN <<>>
    ELSE IF contains(t, " ")
         THEN LET p == split1(t, " ") IN <<p[1]>> \o split_ws(p[2])
         ELSE <<t>>

\* the digits of an int() literal after its sign: digit groups joined by single "_"
int_body_ok(b) ==
    /\ b # <<>>
    /\ \A i \in 1..Len(b) : IsDigit(b[i]) \/ b[i] = "_"
    /\ IsDigit(b[1]) /\ IsDigit(b[Len(b)])
    /\ \A i \in 1..(Len(b) - 1) : ~(b[i] = "_" /\ b[i + 1] = "_")

int_sign(t) == IF t # <<>> /\ Head(t) \in {"+", "-"} THEN <<Head(t)>> ELSE <<>>

int_body(t) == IF int_sign(t) # <<>> THEN Tail(t) ELSE t

\* int(s) succeeds: blanks around, an optional sign, then the digits
int_ok(s) == int_body_ok(int_body(strip(s)))

RECURSIVE int_digits(_, _)
int_digits(b, acc) ==
    IF b = <<>> THEN acc
    ELSE IF Head(b) = "_" THEN int_digits(Tail(b), acc)
    ELSE int_digits(Tail(b), acc * 10 + DigitVal(Head(b)))

\* the value of int(s) when it succeeds
int(s) ==
    LET t == strip(s) IN
    IF int_sign(t) = <<"-">> THEN 0 - int_digits(int_body(t), 0)
    ELSE int_digits(int_body(t), 0)

\* list(range(start, stop, step)) for step > 0
RECURSIVE range(_, _, _)
range(start, stop, step) ==
    IF start >= stop THEN <<>> ELSE <<start>> \o range(start + step, stop, step)

\* sorted(set(values))
RECURSIVE sorted_set(_)
sorted_set(S) ==
    IF S = {} THEN <<>>
    ELSE LET m == CHOOSE x \in S : \A y \in S : x <= y
         IN <<m>> \o sorted_set(S \ {m})

elems(seq) == {seq[i] : i \in 1..Len(seq)}

----------------------------------------------------------------------------
(* Results of a call: a return value or the exception that left it.        *)

Returned(v) == [kind |-> "return", value |-> v, msg |-> ""]

\* raise CronParseError(msg)
CronParseError(m) == [kind |-> "CronParseError", value |-> <<>>, msg |-> m]

\* int() on a string that is no integer literal
ValueError == [kind |-> "ValueError", value |-> <<>>, msg |-> "invalid literal for int()"]

NotCalled == [kind |-> "none", value |-> <<>>, msg |-> ""]

----------------------------------------------------------------------------
(* cron_parse._parse_field                                                 *)

\* mutant: the bounds test of a range without `end > max_val`
range_out_of_bounds_no_upper(start, end, lo, hi) == start < lo \/ start > end

\* the bounds test of a range
range_out_of_bounds(start, end, lo, hi) == start < lo \/ end > hi \/ start > end

\* the bounds test of a single value
value_out_of_bounds(val, lo, hi) == val < lo \/ val > hi

\* start, end = map(int, text.split("-", 1)) followed by the bounds test;
\* `step` is 1 for a plain range
parse_range(text, lo, hi, step, m) ==
    LET p == split1(text, "-") IN
    IF ~int_ok(p[1]) \/ ~int_ok(p[2]) THEN ValueError
    ELSE IF range_out_of_bounds(int(p[1]), int(p[2]), lo, hi) THEN CronParseError(m)
    ELSE Returned(range(int(p[1]), int(p[2]) + 1, step))

\* field.startswith("*/")
star_step(f, lo, hi) ==
    LET s == SubSeq(f, 3, Len(f)) IN
    IF ~int_ok(s) THEN ValueError
    ELSE IF int(s) <= 0 THEN CronParseError("Step must be positive")
    ELSE Returned(range(lo, hi + 1, int(s)))

\* mutant: the stepped range returned without its step
range_step_no_step(f, lo, hi) ==
    LET p == split1(f, "/") IN
    IF ~int_ok(p[2]) THEN ValueError
    ELSE IF int(p[2]) <= 0 THEN CronParseError("Step must be positive")
    ELSE IF ~contains(p[1], "-") THEN CronParseError("Invalid step syntax")
    ELSE parse_range(p[1], lo, hi, 1, "Range out of bounds")

\* "/" in field
range_step(f, lo, hi) ==
    LET p == split1(f, "/") IN
    IF ~int_ok(p[2]) THEN ValueError
    ELSE IF int(p[2]) <= 0 THEN CronParseError("Step must be positive")
    ELSE IF ~contains(p[1], "-") THEN CronParseError("Invalid step syntax")
    ELSE parse_range(p[1], lo, hi, int(p[2]), "Range out of bounds")

\* one element of a comma list, after part.strip()
list_part(part, lo, hi) ==
    IF contains(part, "-") THEN parse_range(part, lo, hi, 1, "Range out of bounds")
    ELSE IF ~int_ok(part) THEN ValueError
    ELSE IF value_out_of_bounds(int(part), lo, hi) THEN CronParseError("Value out of bounds")
    ELSE Returned(<<int(part)>>)

\* the loop over field.split(","): the first failing element ends it
RECURSIVE list_loop(_, _, _, _)
list_loop(parts, lo, hi, values) ==
    IF parts = <<>> THEN Returned(sorted_set(elems(values)))
    ELSE LET r == list_part(strip(Head(parts)), lo, hi) IN
         IF r.kind # "return" THEN r
         ELSE list_loop(Tail(parts), lo, hi, values \o r.value)

\* the final int(field)
single_value(f, lo, hi) ==
    IF ~int_ok(f) THEN ValueError
    ELSE IF value_out_of_bounds(int(f), lo, hi) THEN CronParseError("Value out of bounds")
    ELSE Returned(<<int(f)>>)

_parse_field(f, lo, hi) ==
    IF f = <<"*">> THEN Returned(range(lo, hi + 1, 1))
    ELSE IF startswith(f, <<"*", "/">>) THEN star_step(f, lo, hi)
    ELSE IF contains(f, "/") THEN range_step(f, lo, hi)
    ELSE IF contains(f, ",") THEN list_loop(split(f, ","), lo, hi, <<>>)
    ELSE IF contains(f, "-") THEN parse_range(f, lo, hi, 1, "Range out of bounds")
    ELSE single_value(f, lo, hi)

----------------------------------------------------------------------------
(* cron_parse.parse_cron                                                   *)

\* weekday: int | None
None == <<>>

Some(w) == <<w>>

StartInterval(n) == [type |-> "StartInterval", seconds |-> n, entries |-> <<>>]

CalendarEntry(m, h, w) == [minute |-> m, hour |-> h, weekday |-> w]

StartCalendarInterval(es) == [type |-> "StartCalendarInterval", seconds |-> 0, entries |-> es]

\* mutant: hours and weekdays paired off, zip(hours, weekdays), not crossed
cross_product_zip(minute, hours, weekdays) ==
    [k \in 1..(IF Len(hours) < Len(weekdays) THEN Len(hours) ELSE Len(weekdays)) |->
        CalendarEntry(minute, hours[k], weekdays[k])]

\* [CalendarEntry(minute, h, w) for h in hours for w in weekdays]
cross_product(minute, hours, weekdays) ==
    [k \in 1..(Len(hours) * Len(weekdays)) |->
        CalendarEntry(minute,
                      hours[((k - 1) \div Len(weekdays)) + 1],
                      weekdays[((k - 1) % Len(weekdays)) + 1])]

\* mutant: the interval branch taken whatever the hour and weekday fields are
is_interval_pattern_minute_only(minute_f, hour_f, dow_f) ==
    startswith(minute_f, <<"*", "/">>)

\* the test that selects the interval branch
is_interval_pattern(minute_f, hour_f, dow_f) ==
    startswith(minute_f, <<"*", "/">>) /\ hour_f = <<"*">> /\ dow_f = <<"*">>

\* mutant: `interval < 0` for `interval <= 0`
interval_branch_zero_allowed(minute_f) ==
    LET s == SubSeq(minute_f, 3, Len(minute_f)) IN
    IF ~int_ok(s) THEN ValueError
    ELSE IF int(s) < 0 THEN CronParseError("Interval must be positive")
    ELSE Returned(StartInterval(int(s) * 60))

\* the interval branch
interval_branch(minute_f) ==
    LET s == SubSeq(minute_f, 3, Len(minute_f)) IN
    IF ~int_ok(s) THEN ValueError
    ELSE IF int(s) <= 0 THEN CronParseError("Interval must be positive")
    ELSE Returned(StartInterval(int(s) * 60))

\* the test that refuses a minute field that is not one value
minute_not_single(minute_f) ==
    \/ minute_f = <<"*">>
    \/ contains(minute_f, ",")
    \/ contains(minute_f, "-")
    \/ contains(minute_f, "/")

\* mutant: weekdays parsed with bounds 0-7
parse_weekdays_0_7(dow_f) ==
    IF dow_f = <<"*">> THEN Returned(<<None>>)
    ELSE LET r == _parse_field(dow_f, 0, 7) IN
         IF r.kind # "return" THEN r
         ELSE Returned([i \in 1..Len(r.value) |-> Some(r.value[i])])

\* weekdays = [None] if dow_f == "*" else _parse_field(dow_f, 0, 6, "dow")
parse_weekdays(dow_f) ==
    IF dow_f = <<"*">> THEN Returned(<<None>>)
    ELSE LET r == _parse_field(dow_f, 0, 6) IN
         IF r.kind # "return" THEN r
         ELSE Returned([i \in 1..Len(r.value) |-> Some(r.value[i])])

\* the calendar branch
calendar_branch(minute_f, hour_f, dow_f) ==
    IF minute_not_single(minute_f)
    THEN CronParseError("Minute must be a single value (0-59) for calendar schedules")
    ELSE IF ~int_ok(minute_f) THEN ValueError
    ELSE IF int(minute_f) < 0 \/ int(minute_f) > 59 THEN CronParseError("Minute must be 0-59")
    ELSE LET hours == _parse_field(hour_f, 0, 23) IN
         IF hours.kind # "return" THEN hours
         ELSE LET weekdays == parse_weekdays(dow_f) IN
              IF weekdays.kind # "return" THEN weekdays
              ELSE Returned(StartCalendarInterval(
                       cross_product(int(minute_f), hours.value, weekdays.value)))

\* the tests on the day-of-month and month fields
dom_mon_check(dom_f, mon_f) ==
    IF dom_f # <<"*">> THEN CronParseError("Day of month must be '*'")
    ELSE IF mon_f # <<"*">> THEN CronParseError("Month must be '*'")
    ELSE Returned(<<>>)

\* mutant: day-of-month and month tested after the interval branch
parse_cron_interval_first(expr) ==
    LET parts == split_ws(expr) IN
    IF Len(parts) # 5 THEN CronParseError("Expected 5 fields")
    ELSE IF is_interval_pattern(parts[1], parts[2], parts[5])
         THEN interval_branch(parts[1])
    ELSE IF dom_mon_check(parts[3], parts[4]).kind # "return"
         THEN dom_mon_check(parts[3], parts[4])
    ELSE calendar_branch(parts[1], parts[2], parts[5])

parse_cron(expr) ==
    LET parts == split_ws(expr) IN
    IF Len(parts) # 5 THEN CronParseError("Expected 5 fields")
    ELSE IF dom_mon_check(parts[3], parts[4]).kind # "return"
         THEN dom_mon_check(parts[3], parts[4])
    ELSE IF is_interval_pattern(parts[1], parts[2], parts[5])
         THEN interval_branch(parts[1])
    ELSE calendar_branch(parts[1], parts[2], parts[5])

----------------------------------------------------------------------------
(* cron_parse.format_schedule                                              *)

\* str(n) of an int
RECURSIVE str_nat(_)
str_nat(n) == IF n < 10 THEN <<DIGITS[n + 1]>> ELSE str_nat(n \div 10) \o <<DIGITS[(n % 10) + 1]>>

str_int(n) == IF n < 0 THEN <<"-">> \o str_nat(0 - n) ELSE str_nat(n)

\* the width-2 zero padding of format spec 02d
zero_pad2(n) ==
    IF n < 0 THEN (IF n > -10 THEN <<"-">> \o str_nat(0 - n) ELSE str_int(n))
    ELSE IF n < 10 THEN <<"0">> \o str_nat(n) ELSE str_nat(n)

\* f"{hour:02d}:{minute:02d}"
hhmm(hour, minute) == zero_pad2(hour) \o <<":">> \o zero_pad2(minute)

\* sep.join(items)
RECURSIVE join(_, _)
join(sep, items) ==
    IF items = <<>> THEN <<>>
    ELSE IF Len(items) = 1 THEN Head(items)
    ELSE Head(items) \o sep \o join(sep, Tail(items))

\* days = ["Sun", "Mon", "Tue", "Wed", "Thu", "Fri", "Sat"]
days == << <<"S", "u", "n">>, <<"M", "o", "n">>, <<"T", "u", "e">>, <<"W", "e", "d">>,
           <<"T", "h", "u">>, <<"F", "r", "i">>, <<"S", "a", "t">> >>

\* days[w] of a Python list: negative w counts from the end
days_index_ok(w) == w >= -7 /\ w <= 6

days_at(w) == IF w >= 0 THEN days[w + 1] ELSE days[w + 8]

IndexError == [kind |-> "IndexError", value |-> <<>>, msg |-> "list index out of range"]

LitEveryMinute == <<"E", "v", "e", "r", "y", " ", "m", "i", "n", "u", "t", "e">>
LitEvery == <<"E", "v", "e", "r", "y", " ">>
LitMinutes == <<" ", "m", "i", "n", "u", "t", "e", "s">>
LitDailyAt == <<"D", "a", "i", "l", "y", " ", "a", "t", " ">>
LitAt == <<" ", "a", "t", " ">>
LitAtHead == <<"A", "t", " ">>
LitOn == <<" ", "o", "n", " ">>
LitCommaSpace == <<",", " ">>

\* the StartInterval case
format_interval(seconds) ==
    IF seconds \div 60 = 1 THEN LitEveryMinute
    ELSE LitEvery \o str_int(seconds \div 60) \o LitMinutes

\* the len(entries) == 1 case
format_single(e) ==
    IF e.weekday = None THEN Returned(LitDailyAt \o hhmm(e.hour, e.minute))
    ELSE IF ~days_index_ok(e.weekday[1]) THEN IndexError
    ELSE Returned(days_at(e.weekday[1]) \o LitAt \o hhmm(e.hour, e.minute))

\* mutant: the hours of all entries, repeated ones kept
distinct_hours_repeated(entries) == [i \in 1..Len(entries) |-> entries[i].hour]

\* hours = sorted(set(e.hour for e in entries))
distinct_hours(entries) == sorted_set({entries[i].hour : i \in 1..Len(entries)})

\* sorted(weekdays) without None
distinct_weekdays(entries) ==
    sorted_set({entries[i].weekday[1] : i \in {j \in 1..Len(entries) : entries[j].weekday # None}})

\* the several-entries case
format_multi(entries) ==
    IF entries = <<>> THEN IndexError
    ELSE LET hours == distinct_hours(entries)
             minute == entries[1].minute
             times == join(LitCommaSpace, [i \in 1..Len(hours) |-> hhmm(hours[i], minute)])
             wds == distinct_weekdays(entries)
         IN IF \E i \in 1..Len(entries) : entries[i].weekday = None
            THEN Returned(LitDailyAt \o times)
            ELSE IF \E i \in 1..Len(wds) : ~days_index_ok(wds[i]) THEN IndexError
            ELSE Returned(LitAtHead \o times \o LitOn
                          \o join(LitCommaSpace, [i \in 1..Len(wds) |-> days_at(wds[i])]))

format_schedule(parsed) ==
    IF parsed.type = "StartInterval" THEN Returned(format_interval(parsed.seconds))
    ELSE IF Len(parsed.entries) = 1 THEN format_single(parsed.entries[1])
    ELSE format_multi(parsed.entries)

----------------------------------------------------------------------------
(* launchd.create_plist                                                    *)

\* mutant: `if e.weekday` for `if e.weekday is not None`
has_weekday_truthy(e) == e.weekday # None /\ e.weekday[1] # 0

\* {"Minute": e.minute, "Hour": e.hour} | ({"Weekday": e.weekday} if e.weekday is not None else {})
has_weekday(e) == e.weekday # None

calendar_dict(e) ==
    IF has_weekday(e)
    THEN [Minute |-> e.minute, Hour |-> e.hour, Weekday |-> e.weekday[1]]
    ELSE [Minute |-> e.minute, Hour |-> e.hour]

\* the keys of `data` that carry the schedule
schedule_keys(sched) ==
    IF sched.type = "StartInterval" THEN [StartInterval |-> sched.seconds]
    ELSE IF sched.type = "StartCalendarInterval"
    THEN [StartCalendarInterval |->
              [i \in 1..Len(sched.entries) |-> calendar_dict(sched.entries[i])]]
    ELSE [x \in {} |-> 0]

\* paths.get_label
get_label(name) == <<"com.", "user", ".pycron.", name>>

\* the dictionary plistlib.dump writes
create_plist(name, wrapper, sched) ==
    [Label |-> get_label(name),
     ProgramArguments |-> <<wrapper>>,
     StandardOutPath |-> <<"logs", name>>,
     StandardErrorPath |-> <<"logs", name>>,
     RunAtLoad |-> FALSE] @@ schedule_keys(sched)

----------------------------------------------------------------------------
(* Inputs.                                                                 *)

\* every string of at most n characters
Strings(n) == UNION {[1..k -> Chars] : k \in 0..n}

\* the [min, max] pairs: hours and weekdays as parse_cron calls it, and one
\* pair with a minimum above zero
FieldBounds == {<<0, 23>>, <<0, 6>>, <<1, 7>>}

\* field strings of every syntax, well formed and not
MinuteSamples ==
    { <<"0">>, <<"1", "7">>, <<"7", "7">>, <<"*">>, <<"*", "/", "7">>, <<"0", ",", "1">> }

HourSamples ==
    { <<"*">>, <<"7">>, <<"0", ",", "1", "7">>, <<"0", "-", "1", "7", "/", "7">>,
      <<"*", "/", "7">>, <<"7", "-", "1", "0">>, <<"7", "7">>, <<"*", "/", "0">>, <<"1", ",">> }

DowSamples ==
    { <<"*">>, <<"1">>, <<"0", "-", "1">>, <<"1", ",", "0">>, <<"7">>, <<"-">> }

DomMonSamples ==
    { << <<"1">>, <<"*">> >>, << <<"*">>, <<"1">> >>, << <<"7">>, <<"7">> >>,
      << <<"*", "/", "1">>, <<"*">> >>, << <<"*">>, <<"*", "*">> >> }

STAR == <<"*">>

\* the fields written on one line, one blank between them
Line(fields) == join(<<" ">>, fields)

\* every string in the minute field, beside a few hour and weekday fields
MinuteLines(e) ==
    \E k \in 1..MaxFieldLen :
        \E m \in [1..k -> Chars], h \in {STAR, <<"7">>, <<"7", "7">>}, d \in {STAR, <<"1">>} :
            e = Line(<<m, h, STAR, STAR, d>>)

\* every string in the hour field, beside a few minute and weekday fields
HourLines(e) ==
    \E k \in 1..MaxFieldLen :
        \E m \in {<<"7">>, <<"*", "/", "7">>}, h \in [1..k -> Chars], d \in {STAR, <<"1", ",", "0">>} :
            e = Line(<<m, h, STAR, STAR, d>>)

\* every string in the weekday field, beside a few minute and hour fields
DowLines(e) ==
    \E k \in 1..MaxFieldLen :
        \E m \in {<<"7">>}, h \in {STAR, <<"7">>, <<"0", ",", "1">>}, d \in [1..k -> Chars] :
            e = Line(<<m, h, STAR, STAR, d>>)

\* every combination of the sample fields
SampleLines(e) ==
    \E m \in MinuteSamples, h \in HourSamples, d \in DowSamples :
        e = Line(<<m, h, STAR, STAR, d>>)

\* day-of-month / month fields that are not "*", beside the sample fields
DomMonLines(e) ==
    \E m \in MinuteSamples, h \in HourSamples, d \in DowSamples, dm \in DomMonSamples :
        e = Line(<<m, h, dm[1], dm[2], d>>)

\* expressions with another number of fields, and with more blanks
OtherLines ==
    { <<>>,
      <<" ">>,
      Line(<<STAR, STAR, STAR, STAR>>),
      Line(<<<<"0">>, <<"7">>, STAR, STAR>>),
      Line(<<<<"0">>, <<"7">>, STAR, STAR, STAR, STAR>>),
      Line(<<<<"*", "/", "7">>, STAR, STAR, STAR, STAR, <<"1">>>>),
      <<" ">> \o Line(<<<<"0">>, <<"7">>, STAR, STAR, <<"1">>>>) \o <<" ">>,
      join(<<" ", " ">>, <<<<"1", "7">>, <<"0", ",", "7">>, STAR, STAR, STAR>>) }

\* the expressions tried
IsExpression(e) ==
    \/ MinuteLines(e)
    \/ HourLines(e)
    \/ DowLines(e)
    \/ SampleLines(e)
    \/ DomMonLines(e)
    \/ e \in OtherLines

\* every string in one field
ExhaustiveLines(e) == MinuteLines(e) \/ HourLines(e) \/ DowLines(e)

\* the sample fields
ChosenLines(e) == SampleLines(e) \/ DomMonLines(e) \/ e \in OtherLines

\* add: the --name option
TaskName == "job"

\* add: the --py option, and the script of an earlier add of the same name
Script == "job.py"

OldScript == "old.py"

\* add: the path create_wrapper returns
WrapperPath == <<"wrappers", TaskName>>

\* a file that does not exist
NoFile == <<>>

File(content) == <<content>>

----------------------------------------------------------------------------
(* launchd: create_wrapper, validate_plist, load, unload, get_status       *)

\* raise LaunchdError(msg)
LaunchdError(m) == [kind |-> "LaunchdError", value |-> <<>>, msg |-> m]

\* the text create_wrapper writes: the log, the working directory, the
\* interpreter and the script it names
create_wrapper(name, script, workdir, python) ==
    [LOG |-> <<"logs", name>>, cd |-> workdir, python |-> python, script |-> script]

\* get_status(name)["loaded"]: a line of `launchctl list` carries the label
status_loaded(is_loaded) == is_loaded

\* unload: launchctl unload runs only if the plist exists; its result is ignored
unload_runs(plist_file) == plist_file # NoFile

unload_loaded(is_loaded, plist_file) == IF unload_runs(plist_file) THEN FALSE ELSE is_loaded

\* validate_plist: plutil -lint returned 0, or not
validate_plist(lint_ok) ==
    IF lint_ok THEN Returned(<<>>) ELSE LaunchdError("Invalid plist")

\* what `launchctl load` can answer for a task that is, or is not, loaded
LoadAnswers(is_loaded) == IF is_loaded THEN {"already loaded"} ELSE {"ok", "failed"}

\* load: no plist, or a failure other than "already loaded", raises
load(plist_file, answer) ==
    IF plist_file = NoFile THEN LaunchdError("Plist not found")
    ELSE IF answer = "failed" THEN LaunchdError("Load failed")
    ELSE Returned(<<>>)

\* one call add made, with its outcome
Call(op, outcome) == <<op, outcome>>

\* the files of an earlier `add` of the same name: "*/1 * * * *" for old.py
OldWrapper == File(create_wrapper(TaskName, OldScript, "workdir", "/usr/bin/python3"))

OldPlist == File(create_plist(TaskName, WrapperPath, StartInterval(60)))

----------------------------------------------------------------------------
(* cli.add                                                                 *)

\* Before add runs the task may be loaded or not, with or without the files
\* of an earlier add.  The expressions with every string in one field are
\* tried on a loaded task with its files; the sample expressions on all four.
Init ==
    /\ pc = "add"
    /\ \/ /\ ExhaustiveLines(expression)
          /\ loaded = TRUE
          /\ plist = OldPlist
          /\ wrapper_file = OldWrapper
       \/ /\ ChosenLines(expression)
          /\ loaded \in BOOLEAN
          /\ \E files \in BOOLEAN :
                 /\ plist = IF files THEN OldPlist ELSE NoFile
                 /\ wrapper_file = IF files THEN OldWrapper ELSE NoFile
    /\ schedule = NotCalled
    /\ summary = NotCalled
    /\ log = <<>>
    /\ field = <<>>
    /\ min_val = 0
    /\ max_val = 0
    /\ field_ret = NotCalled

\* the script, the interpreter or the working directory is missing: Exit(1)
add_check_paths ==
    /\ pc = "add"
    /\ \E missing \in {"py", "python", "workdir"} : pc' = "exit_1"
    /\ UNCHANGED <<field_vars, expression, schedule, plist, summary, loaded, wrapper_file, log>>

\* mutant: the status is read and a loaded task unloaded before the
\* expression is parsed
add_parse_cron_unload_first ==
    /\ pc = "add"
    /\ schedule' = parse_cron(expression)
    /\ IF status_loaded(loaded)
       THEN /\ loaded' = unload_loaded(loaded, plist)
            /\ log' = Append(log, Call("unload",
                          IF unload_runs(plist) THEN "launchctl unload" ELSE "no plist"))
       ELSE UNCHANGED <<loaded, log>>
    /\ pc' = IF schedule'.kind = "return" THEN "status_checked"
             ELSE IF schedule'.kind = "CronParseError" THEN "exit_1"
             ELSE "traceback"
    /\ UNCHANGED <<field_vars, expression, plist, summary, wrapper_file>>

\* try: schedule = parse_cron(cron) / except CronParseError: raise typer.Exit(1)
add_parse_cron ==
    /\ pc = "add"
    /\ schedule' = parse_cron(expression)
    /\ pc' = IF schedule'.kind = "return" THEN "parsed"
             ELSE IF schedule'.kind = "CronParseError" THEN "exit_1"
             ELSE "traceback"
    /\ UNCHANGED <<field_vars, expression, plist, summary, loaded, wrapper_file, log>>

\* status = get_status(name) / if status["loaded"]: unload(name)
add_unload_if_loaded ==
    /\ pc = "parsed"
    /\ IF status_loaded(loaded)
       THEN /\ loaded' = unload_loaded(loaded, plist)
            /\ log' = Append(log, Call("unload",
                          IF unload_runs(plist) THEN "launchctl unload" ELSE "no plist"))
       ELSE UNCHANGED <<loaded, log>>
    /\ pc' = "status_checked"
    /\ UNCHANGED <<field_vars, expression, schedule, plist, summary, wrapper_file>>

\* wrapper = create_wrapper(name, py, workdir, python)
add_create_wrapper ==
    /\ pc = "status_checked"
    /\ wrapper_file' = File(create_wrapper(TaskName, Script, "workdir", "/usr/bin/python3"))
    /\ log' = Append(log, Call("create_wrapper", "written"))
    /\ pc' = "wrapper_written"
    /\ UNCHANGED <<field_vars, expression, schedule, plist, summary, loaded>>

\* plist = create_plist(name, wrapper, schedule)
add_create_plist ==
    /\ pc = "wrapper_written"
    /\ plist' = File(create_plist(TaskName, WrapperPath, schedule.value))
    /\ log' = Append(log, Call("create_plist", "written"))
    /\ pc' = "plist_written"
    /\ UNCHANGED <<field_vars, expression, schedule, summary, loaded, wrapper_file>>

\* validate_plist(plist); a LaunchdError is caught: Exit(1)
add_validate_plist ==
    /\ pc = "plist_written"
    /\ \E lint_ok \in BOOLEAN :
           /\ log' = Append(log, Call("validate_plist", validate_plist(lint_ok).kind))
           /\ pc' = IF validate_plist(lint_ok).kind = "return" THEN "validated" ELSE "exit_1"
    /\ UNCHANGED <<field_vars, expression, schedule, plist, summary, loaded, wrapper_file>>

\* load(name); a LaunchdError is caught: Exit(1)
add_load ==
    /\ pc = "validated"
    /\ \E answer \in LoadAnswers(loaded) :
           /\ log' = Append(log, Call("load", load(plist, answer).kind))
           /\ loaded' = IF load(plist, answer).kind = "return" THEN TRUE ELSE loaded
           /\ pc' = IF load(plist, answer).kind = "return" THEN "loaded" ELSE "exit_1"
    /\ UNCHANGED <<field_vars, expression, schedule, plist, summary, wrapper_file>>

\* rprint(f"  Schedule: {format_schedule(schedule)}")
add_format_schedule ==
    /\ pc = "loaded"
    /\ summary' = format_schedule(schedule.value)
    /\ pc' = IF summary'.kind = "return" THEN "scheduled" ELSE "exit_1"
    /\ UNCHANGED <<field_vars, expression, schedule, plist, loaded, wrapper_file, log>>

Next ==
    \/ add_check_paths
    \/ add_parse_cron
    \/ add_unload_if_loaded
    \/ add_create_wrapper
    \/ add_create_plist
    \/ add_validate_plist
    \/ add_load
    \/ add_format_schedule

Spec == Init /\ [][Next]_vars

----------------------------------------------------------------------------
(* A call of _parse_field on its own.                                      *)

InitField ==
    /\ pc = "call_parse_field"
    /\ field \in Strings(MaxLen)
    /\ \E b \in FieldBounds : min_val = b[1] /\ max_val = b[2]
    /\ field_ret = NotCalled
    /\ expression = <<>>
    /\ schedule = NotCalled
    /\ plist = NoFile
    /\ summary = NotCalled
    /\ loaded = FALSE
    /\ wrapper_file = NoFile
    /\ log = <<>>

call_parse_field ==
    /\ pc = "call_parse_field"
    /\ field_ret' = _parse_field(field, min_val, max_val)
    /\ pc' = "parse_field_done"
    /\ UNCHANGED <<field, min_val, max_val, expression, schedule, plist, summary,
                   loaded, wrapper_file, log>>

NextField == call_parse_field

SpecField == InitField /\ [][NextField]_vars

----------------------------------------------------------------------------
(* Properties.                                                             *)

\* parse_cron has run
Parsed == schedule # NotCalled

\* parse_cron returned a calendar schedule
IsCalendar == Parsed /\ schedule.kind = "return" /\ schedule.value.type = "StartCalendarInterval"

\* parse_cron returned an interval schedule
IsInterval == Parsed /\ schedule.kind = "return" /\ schedule.value.type = "StartInterval"

\* five fields p, day-of-month and month both "*"
FiveFieldsStarDomMon(p) == Len(p) = 5 /\ p[3] = STAR /\ p[4] = STAR

\* C1: every expression parse_cron rejects is rejected with CronParseError, and
\* `add` leaves through its own error exit, never through an uncaught exception.
C1_OnlyCronParseError ==
    Parsed => /\ schedule.kind \in {"return", "CronParseError"}
              /\ pc # "traceback"

\* C2: a sequence _parse_field returns is strictly ascending, so free of
\* duplicates, and all of it lies in [min_val, max_val].
C2_AscendingInBounds ==
    (pc = "parse_field_done" /\ field_ret.kind = "return") =>
        /\ \A i \in 1..Len(field_ret.value) :
               field_ret.value[i] >= min_val /\ field_ret.value[i] <= max_val
        /\ \A i, j \in 1..Len(field_ret.value) :
               i < j => field_ret.value[i] < field_ret.value[j]

\* C2 witness: a list written out of order, with a range in it, was accepted.
C2_Witness ==
    /\ pc = "parse_field_done"
    /\ field = <<"7", ",", "0", "-", "1">>
    /\ min_val = 0 /\ max_val = 23
    /\ field_ret = Returned(<<0, 1, 7>>)

\* the hour sequence H and the weekday sequence W of the fields p
HoursOf(p) == _parse_field(p[2], 0, 23).value

WeekdaysOf(p) ==
    IF p[5] = STAR THEN <<None>>
    ELSE LET r == _parse_field(p[5], 0, 6).value IN [i \in 1..Len(r) |-> Some(r[i])]

\* C3: an accepted calendar expression has |H| x |W| entries, exactly one for
\* each pair of an hour of H and a weekday of W, each with the parsed minute.
C3_CrossProduct ==
    IsCalendar =>
        LET p == split_ws(expression)
            es == schedule.value.entries
            H == elems(HoursOf(p))
            W == elems(WeekdaysOf(p))
        IN /\ Len(es) = Cardinality(H) * Cardinality(W)
           /\ \A h \in H, w \in W :
                  Cardinality({k \in 1..Len(es) : es[k].hour = h /\ es[k].weekday = w}) = 1
           /\ \A k \in 1..Len(es) :
                  es[k].hour \in H /\ es[k].weekday \in W /\ es[k].minute = int(p[1])

\* C3 witness: two hours crossed with two weekdays.
C3_Witness ==
    /\ IsCalendar
    /\ Cardinality(elems(HoursOf(split_ws(expression)))) = 2
    /\ Cardinality(elems(WeekdaysOf(split_ws(expression)))) = 2
    /\ Len(schedule.value.entries) = 4

\* the N of a minute field "*/N"
StepText(p) == SubSeq(p[1], 3, Len(p[1]))

\* "*/N * * * *"
IntervalForm(p) ==
    /\ FiveFieldsStarDomMon(p)
    /\ startswith(p[1], <<"*", "/">>)
    /\ p[2] = STAR
    /\ p[5] = STAR

\* C4: "*/N * * * *" gives StartInterval(N * 60) when N is a positive integer
\* and fails when N <= 0; the seconds of every interval schedule returned are
\* a positive multiple of 60.
C4_IntervalSeconds ==
    Parsed =>
        LET p == split_ws(expression) IN
        /\ (IntervalForm(p) /\ int_ok(StepText(p)) /\ int(StepText(p)) > 0) =>
               schedule = Returned(StartInterval(int(StepText(p)) * 60))
        /\ (IntervalForm(p) /\ int_ok(StepText(p)) /\ int(StepText(p)) <= 0) =>
               schedule.kind # "return"
        /\ IsInterval =>
               schedule.value.seconds > 0 /\ schedule.value.seconds % 60 = 0

\* C4 witness: "*/17 * * * *" was parsed to 1020 seconds.
C4_Witness ==
    /\ IsInterval
    /\ expression = Line(<<<<"*", "/", "1", "7">>, STAR, STAR, STAR, STAR>>)
    /\ schedule.value.seconds = 1020

\* a minute field that is a wildcard, a list, a range or a step
WildcardListRangeStep(m) ==
    m = STAR \/ contains(m, ",") \/ contains(m, "-") \/ contains(m, "/")

SingleMinuteError ==
    CronParseError("Minute must be a single value (0-59) for calendar schedules")

\* C5: outside the interval form, a minute field that is a wildcard, a list, a
\* range or a step is refused with the single-minute error, and the minute of
\* an accepted calendar expression is one integer of 0..59.
C5_SingleMinute ==
    Parsed =>
        LET p == split_ws(expression) IN
        /\ (FiveFieldsStarDomMon(p) /\ ~IntervalForm(p) /\ WildcardListRangeStep(p[1])) =>
               schedule = SingleMinuteError
        /\ IsCalendar =>
               /\ ~WildcardListRangeStep(p[1])
               /\ \A i \in 1..Len(p[1]) : IsDigit(p[1][i])
               /\ \E n \in 0..59 :
                      \A k \in 1..Len(schedule.value.entries) :
                          schedule.value.entries[k].minute = n

\* C5 witness: "*/7 7 * * *" was refused for its minute field.
C5_Witness ==
    /\ Parsed
    /\ expression = Line(<<<<"*", "/", "7">>, <<"7">>, STAR, STAR, STAR>>)
    /\ schedule = SingleMinuteError

\* C6: an expression whose day-of-month or month field is not "*" fails with
\* the day-of-month / month error whatever its other fields hold; and with
\* both "*", a refused minute syntax is reported even when the hour or the
\* weekday field is itself invalid.
C6_DomMonFirst ==
    Parsed =>
        LET p == split_ws(expression) IN
        /\ (Len(p) = 5 /\ p[3] # STAR) =>
               schedule = CronParseError("Day of month must be '*'")
        /\ (Len(p) = 5 /\ p[3] = STAR /\ p[4] # STAR) =>
               schedule = CronParseError("Month must be '*'")
        /\ (FiveFieldsStarDomMon(p) /\ ~IntervalForm(p) /\ WildcardListRangeStep(p[1])
               /\ (_parse_field(p[2], 0, 23).kind # "return"
                   \/ _parse_field(p[5], 0, 6).kind # "return")) =>
               schedule = SingleMinuteError

\* C6 witness: "*/7 * * 1 *", of interval form but for its month, was refused
\* for its month.
C6_Witness ==
    /\ Parsed
    /\ expression = Line(<<<<"*", "/", "7">>, STAR, STAR, <<"1">>, STAR>>)
    /\ schedule = CronParseError("Month must be '*'")

\* HH:MM, two digits each
RefPad2(n) == <<DIGITS[(n \div 10) + 1], DIGITS[(n % 10) + 1]>>

RefTime(h, m) == RefPad2(h) \o <<":">> \o RefPad2(m)

\* Sun..Sat for 0..6
RefDayName(w) ==
    CASE w = 0 -> <<"S", "u", "n">>
      [] w = 1 -> <<"M", "o", "n">>
      [] w = 2 -> <<"T", "u", "e">>
      [] w = 3 -> <<"W", "e", "d">>
      [] w = 4 -> <<"T", "h", "u">>
      [] w = 5 -> <<"F", "r", "i">>
      [] w = 6 -> <<"S", "a", "t">>

\* the members of S within lo..hi, ascending
RefAscending(S, lo, hi) ==
    SelectSeq([i \in 1..(hi - lo + 1) |-> lo + i - 1], LAMBDA x : x \in S)

\* the items written one after the other, ", " before each but the first
RECURSIVE RefCommaList(_)
RefCommaList(items) ==
    IF Len(items) = 1 THEN items[1]
    ELSE RefCommaList(SubSeq(items, 1, Len(items) - 1)) \o <<",", " ">> \o items[Len(items)]

\* the text the claim gives for a calendar schedule
RefSummary(es) ==
    LET hs == RefAscending({es[k].hour : k \in 1..Len(es)}, 0, 23)
        times == RefCommaList([i \in 1..Len(hs) |-> RefTime(hs[i], es[1].minute)])
        ws == RefAscending({es[k].weekday[1] : k \in {j \in 1..Len(es) : es[j].weekday # None}}, 0, 6)
    IN IF Len(es) = 1
       THEN (IF es[1].weekday # None
             THEN RefDayName(es[1].weekday[1]) \o <<" ", "a", "t", " ">> \o RefTime(es[1].hour, es[1].minute)
             ELSE <<"D", "a", "i", "l", "y", " ", "a", "t", " ">> \o RefTime(es[1].hour, es[1].minute))
       ELSE IF \E k \in 1..Len(es) : es[k].weekday = None
       THEN <<"D", "a", "i", "l", "y", " ", "a", "t", " ">> \o times
       ELSE <<"A", "t", " ">> \o times \o <<" ", "o", "n", " ">>
            \o RefCommaList([i \in 1..Len(ws) |-> RefDayName(ws[i])])

\* C7: format_schedule does not fail on a calendar schedule parse_cron
\* returned, and gives the text stated for one entry and for several.
C7_CalendarSummary ==
    (IsCalendar /\ summary # NotCalled) =>
        summary = Returned(RefSummary(schedule.value.entries))

\* C7 witness: "At 00:17, 17:17 on Sun, Mon", from four entries.
C7_Witness ==
    /\ IsCalendar
    /\ Len(schedule.value.entries) = 4
    /\ summary.kind = "return"
    /\ summary.value = <<"A", "t", " ", "0", "0", ":", "1", "7", ",", " ", "1", "7", ":", "1", "7",
                         " ", "o", "n", " ", "S", "u", "n", ",", " ", "M", "o", "n">>

\* the dictionary create_plist wrote
PlistData == plist[1]

\* add has called create_plist
PlistWritten == \E i \in 1..Len(log) : log[i][1] = "create_plist"

\* C8: create_plist writes one trigger per entry, in entry order, with the
\* entry's minute and hour and with a weekday exactly when the entry has one;
\* an interval schedule gives the one key StartInterval and no calendar key.
C8_OneTriggerPerEntry ==
    /\ (IsCalendar /\ PlistWritten) =>
           LET es == schedule.value.entries IN
           /\ "StartCalendarInterval" \in DOMAIN PlistData
           /\ "StartInterval" \notin DOMAIN PlistData
           /\ Len(PlistData.StartCalendarInterval) = Len(es)
           /\ \A i \in 1..Len(es) :
                  LET t == PlistData.StartCalendarInterval[i] IN
                  /\ t.Minute = es[i].minute
                  /\ t.Hour = es[i].hour
                  /\ ("Weekday" \in DOMAIN t) <=> (es[i].weekday # None)
                  /\ es[i].weekday # None => t.Weekday = es[i].weekday[1]
                  /\ DOMAIN t \subseteq {"Minute", "Hour", "Weekday"}
    /\ (IsInterval /\ PlistWritten) =>
           /\ "StartInterval" \in DOMAIN PlistData
           /\ PlistData.StartInterval = schedule.value.seconds
           /\ "StartCalendarInterval" \notin DOMAIN PlistData

\* C8 witness: a plist of two triggers, the first for Sunday, weekday 0.
C8_Witness ==
    /\ IsCalendar
    /\ PlistWritten
    /\ Len(schedule.value.entries) = 2
    /\ schedule.value.entries[1].weekday = Some(0)
    /\ PlistData.StartCalendarInterval[1].Weekday = 0
    /\ PlistData.StartCalendarInterval[2].Weekday = 1

\* a numeral: digits, after a "-" when `signed`
RefNum(t, signed) ==
    /\ t # <<>>
    /\ \/ \A i \in 1..Len(t) : IsDigit(t[i])
       \/ signed /\ Len(t) >= 2 /\ t[1] = "-" /\ \A i \in 2..Len(t) : IsDigit(t[i])

RECURSIVE RefNat(_)
RefNat(t) ==
    IF t = <<>> THEN 0
    ELSE 10 * RefNat(SubSeq(t, 1, Len(t) - 1)) + DigitVal(t[Len(t)])

RefVal(t) == IF t[1] = "-" THEN 0 - RefNat(Tail(t)) ELSE RefNat(t)

\* "A-B" with lo <= A <= B <= hi
RefRange(t, lo, hi, signed) ==
    /\ contains(t, "-")
    /\ RefNum(split1(t, "-")[1], signed)
    /\ RefNum(split1(t, "-")[2], signed)
    /\ lo <= RefVal(split1(t, "-")[1])
    /\ RefVal(split1(t, "-")[1]) <= RefVal(split1(t, "-")[2])
    /\ RefVal(split1(t, "-")[2]) <= hi

RefRangeSet(t) == RefVal(split1(t, "-")[1]) .. RefVal(split1(t, "-")[2])

\* one integer of lo..hi
RefSingle(t, lo, hi) == RefNum(t, FALSE) /\ lo <= RefVal(t) /\ RefVal(t) <= hi

\* a positive N
RefStep(t) == RefNum(t, FALSE) /\ RefVal(t) > 0

\* the fields of the six syntaxes
RefAccepts(f, lo, hi, signed) ==
    \/ f = STAR
    \/ startswith(f, <<"*", "/">>) /\ RefStep(SubSeq(f, 3, Len(f)))
    \/ /\ contains(f, "/")
       /\ RefRange(split1(f, "/")[1], lo, hi, signed)
       /\ RefStep(split1(f, "/")[2])
    \/ /\ contains(f, ",")
       /\ ~contains(f, "/")
       /\ \A t \in elems(split(f, ",")) : RefRange(t, lo, hi, signed) \/ RefSingle(t, lo, hi)
    \/ ~contains(f, ",") /\ RefRange(f, lo, hi, signed)
    \/ RefSingle(f, lo, hi)

\* the integers an accepted field stands for
RefSet(f, lo, hi) ==
    IF f = STAR THEN lo..hi
    ELSE IF startswith(f, <<"*", "/">>)
    THEN {x \in lo..hi : (x - lo) % RefVal(SubSeq(f, 3, Len(f))) = 0}
    ELSE IF contains(f, "/")
    THEN {x \in RefRangeSet(split1(f, "/")[1]) :
              (x - RefVal(split1(split1(f, "/")[1], "-")[1])) % RefVal(split1(f, "/")[2]) = 0}
    ELSE IF contains(f, ",")
    THEN UNION {IF contains(t, "-") THEN RefRangeSet(t) ELSE {RefVal(t)} : t \in elems(split(f, ","))}
    ELSE IF contains(f, "-") THEN RefRangeSet(f)
    ELSE {RefVal(f)}

\* a step N <= 0
RefStepNotPositive(t) == RefNum(t, TRUE) /\ RefVal(t) <= 0

\* C9: _parse_field returns, for each field it accepts, the integers the field
\* stands for in the first of the six syntaxes it matches, ascending; it
\* accepts every field of the six syntaxes written with plain numerals, a
\* positive step, A <= B and bounds and values in [min_val, max_val]; it fails
\* for a step N <= 0, a stepped range without "-", A > B, a bound or value out
\* of bounds, and a step inside a list.
C9_ReferenceSet ==
    pc = "parse_field_done" =>
        /\ field_ret.kind = "return" =>
               /\ RefAccepts(field, min_val, max_val, TRUE)
               /\ field_ret.value = RefAscending(RefSet(field, min_val, max_val), min_val, max_val)
        /\ RefAccepts(field, min_val, max_val, FALSE) => field_ret.kind = "return"
        /\ (contains(field, "/") /\ RefStepNotPositive(split1(field, "/")[2])) =>
               field_ret.kind # "return"
        /\ (contains(field, "/") /\ ~startswith(field, <<"*", "/">>)
               /\ ~contains(split1(field, "/")[1], "-")) => field_ret.kind # "return"
        /\ (contains(field, ",") /\ contains(field, "/")) => field_ret.kind # "return"

\* C9 witness: "0-7/7" within [0, 23] gave 0, 7.
C9_Witness ==
    /\ pc = "parse_field_done"
    /\ field = <<"0", "-", "7", "/", "7">>
    /\ min_val = 0 /\ max_val = 23
    /\ field_ret = Returned(<<0, 7>>)

\* C10: a calendar schedule parse_cron returns has an entry, one minute for
\* all entries, hours within 0..23, and weekdays that are all unset or all
\* set and within 0..6.
C10_ScheduleInvariants ==
    IsCalendar =>
        LET es == schedule.value.entries IN
        /\ Len(es) >= 1
        /\ \A i, j \in 1..Len(es) : es[i].minute = es[j].minute
        /\ \A i \in 1..Len(es) : es[i].hour >= 0 /\ es[i].hour <= 23
        /\ \/ \A i \in 1..Len(es) : es[i].weekday = None
           \/ \A i \in 1..Len(es) :
                  /\ es[i].weekday # None
                  /\ es[i].weekday[1] >= 0
                  /\ es[i].weekday[1] <= 6

\* C10 witness: the 24 hours of "*" on the one weekday 1.
C10_Witness ==
    /\ IsCalendar
    /\ Len(schedule.value.entries) = 24
    /\ \A i \in 1..24 : schedule.value.entries[i].weekday = Some(1)

\* the functions add has called, without their outcomes
Ops(l) == [i \in 1..Len(l) |-> l[i][1]]

\* the order of the calls after the optional unload
AddOrder == <<"create_wrapper", "create_plist", "validate_plist", "load">>

IsPrefix(a, b) == Len(a) <= Len(b) /\ SubSeq(b, 1, Len(a)) = a

\* nothing is called before the expression is accepted; the calls come in
\* the order unload, create_wrapper, create_plist, validate_plist, load; no
\* load follows a validation that failed
CallsInOrder ==
    /\ log # <<>> => schedule.kind = "return"
    /\ IsPrefix(Ops(log), AddOrder) \/ IsPrefix(Ops(log), <<"unload">> \o AddOrder)
    /\ \A i, j \in 1..Len(log) :
           (log[i] = Call("validate_plist", "LaunchdError") /\ i < j) => log[j][1] # "load"

\* a step that ends with the expression rejected leaves the loaded state, the
\* wrapper and the plist as they were and calls nothing
RejectionTouchesNothing ==
    schedule'.kind \notin {"none", "return"} =>
        /\ loaded' = loaded
        /\ plist' = plist
        /\ wrapper_file' = wrapper_file
        /\ log' = log

\* unload is called exactly when the task is loaded
UnloadOnlyIfLoaded ==
    /\ (Len(log') > Len(log) /\ log'[Len(log')][1] = "unload") => loaded
    /\ (pc = "parsed" /\ pc' # "parsed") => (loaded <=> Ops(log') = <<"unload">>)

\* C11: add parses the expression before it touches the scheduler: a
\* rejected expression leaves the task loaded or not as it was, its wrapper
\* and plist unwritten and nothing called; on acceptance the calls are unload
\* (exactly when the task is loaded), create_wrapper, create_plist,
\* validate_plist, load, and load is not called after a failed validation.
C11_ParseBeforeTouching ==
    [][RejectionTouchesNothing /\ UnloadOnlyIfLoaded /\ CallsInOrder']_vars

\* C11 witness: an expression was rejected while the task was loaded, and the
\* task is still loaded with the plist and wrapper of the earlier add.
C11_Witness ==
    /\ pc = "exit_1"
    /\ schedule.kind = "CronParseError"
    /\ loaded
    /\ plist = OldPlist
    /\ wrapper_file = OldWrapper
    /\ log = <<>>

====
